---- MODULE Spec2Model ----
(***************************************************************************)
(* A model of StudentManagementSystem (src/student_management.py): the     *)
(* schema list self.headers, the bound file (self.filename and             *)
(* self.file_type), the files on disk, and one action per public method.   *)
(* A file's text is kept as the rows csv would read from it (CSV text) or  *)
(* the list of objects json would load from it (JSON text).                *)
(***************************************************************************)
EXTENDS Integers, Sequences, FiniteSets, TLC

VARIABLES headers,    \* self.headers
          filename,   \* self.filename (NoPath while None)
          file_type,  \* self.file_type (NoPath while None)
          fs,         \* the files on disk: path -> text
          result      \* what the last call printed or raised

vars == <<headers, filename, file_type, fs, result>>

\* Bounds of the model.
MaxRecords == 2

\* ------------------------------------------------------------ helpers

Range(s) == {s[i] : i \in DOMAIN s}

Min(S) == CHOOSE m \in S : \A n \in S : m <= n

IndexOf(s, e) == Min({i \in DOMAIN s : s[i] = e})

RemoveAt(s, i) == SubSeq(s, 1, i - 1) \o SubSeq(s, i + 1, Len(s))

\* Python's None as self.filename / self.file_type.
NoPath == "<unset>"

\* Python's None as a dictionary value (csv.DictReader's restval).
NoneVal == "<None>"

\* Python's None as a dictionary key (csv.DictReader's restkey).
RestKey == "<restkey>"

DefaultHeaders == <<"id", "name", "age", "grade">>

default_filename == "students.csv"

\* The paths the files of the model live at.
Paths == {"students.csv", "data.json"}

\* What set_file_path is called with ("" stands for no path given).
PathInputs == {"", "students.csv", "data.json", "notes.txt"}

\* path.suffix.lower()
Suffix(p) ==
  CASE p = "students.csv" -> ".csv"
    [] p = "data.json" -> ".json"
    [] OTHER -> ".txt"

\* str.lower() on the column names of the model.
Lower(s) ==
  CASE s = "ID" -> "id"
    [] s = "Grade" -> "grade"
    [] s = "X" -> "x"
    [] OTHER -> s

\* ---------------------------------------------------------- file text

NoFile == [fmt |-> "none", lines |-> <<>>, objs |-> <<>>]

\* Text written by csv.writer: one row of fields per line.
CsvText(lines) == [fmt |-> "csv", lines |-> lines, objs |-> <<>>]

\* Text written by json.dump: a list of objects.
JsonText(objs) == [fmt |-> "json", lines |-> <<>>, objs |-> objs]

\* The lines json.dump(obj, indent=2) writes for one object, as csv.reader
\* splits them: every member but the last ends in a comma, which csv reads as
\* a second, empty field; so does the closing brace of every object but the last.
JsonObjectLines(obj, isLast) ==
  LET n == Cardinality(DOMAIN obj)
  IN  << <<"  {">> >>
      \o [i \in 1..n |-> IF i < n THEN <<"<member>", "">> ELSE <<"<member>">>]
      \o << IF isLast THEN <<"  }">> ELSE <<"  }", "">> >>

RECURSIVE JsonObjectsLines(_, _)
JsonObjectsLines(objs, i) ==
  IF i > Len(objs) THEN <<>>
  ELSE JsonObjectLines(objs[i], i = Len(objs)) \o JsonObjectsLines(objs, i + 1)

\* The rows csv.reader yields for a file's text.
CsvLines(text) ==
  IF text.fmt = "csv" THEN text.lines
  ELSE IF text.objs = <<>> THEN << <<"[]">> >>
  ELSE << <<"[">> >> \o JsonObjectsLines(text.objs, 1) \o << <<"]">> >>

\* One row of csv.DictReader: zip(fieldnames, row), the surplus fields under
\* restkey None, the missing ones as restval None.
DictReaderRow(fieldnames, row) ==
  LET lf == Len(fieldnames)
      lr == Len(row)
      named == [k \in Range(fieldnames) |->
                  LET i == CHOOSE j \in DOMAIN fieldnames :
                             /\ fieldnames[j] = k
                             /\ \A m \in DOMAIN fieldnames : fieldnames[m] = k => m <= j
                  IN  IF i <= lr THEN row[i] ELSE NoneVal]
  IN  IF lf < lr THEN named @@ (RestKey :> SubSeq(row, lf + 1, lr)) ELSE named

\* list(csv.DictReader(file)): the first row is the fieldnames.
DictReader(text) ==
  LET lines == CsvLines(text)
  IN  [i \in 1..(Len(lines) - 1) |-> DictReaderRow(lines[1], lines[i + 1])]

\* csv.DictWriter._dict_to_list: raises on a key outside fieldnames.
HasExtraFields(rowdict, fieldnames) == ~(DOMAIN rowdict \subseteq Range(fieldnames))

DictToList(rowdict, fieldnames) ==
  [i \in 1..Len(fieldnames) |->
     IF fieldnames[i] \in DOMAIN rowdict /\ rowdict[fieldnames[i]] # NoneVal
     THEN rowdict[fieldnames[i]] ELSE ""]

\* open(filename, 'w'); writer.writeheader(); writer.writerows(students):
\* the rows are converted one at a time, so the rows before the first one with
\* a key outside fieldnames are written before ValueError is raised.
DictWriterRewrite(fieldnames, students) ==
  LET bad == {i \in DOMAIN students : HasExtraFields(students[i], fieldnames)}
      stop == IF bad = {} THEN Len(students) + 1 ELSE Min(bad)
  IN  [text |-> CsvText(<<fieldnames>> \o
                        [i \in 1..(stop - 1) |-> DictToList(students[i], fieldnames)]),
       raised |-> bad # {}]

\* read_json_file: json.load fails on text that is not JSON.
JsonLoads(text) == text.fmt = "json"

read_json_file(text) == text.objs

\* ----------------------------------------------------- set_file_path

create_file_if_not_exists(path, type) ==
  IF fs[path] # NoFile THEN fs
  ELSE IF type = ".csv" THEN [fs EXCEPT ![path] = CsvText(<<headers>>)]
  ELSE [fs EXCEPT ![path] = JsonText(<<>>)]

set_file_path(file_path) ==
  LET path == IF file_path = "" THEN default_filename ELSE file_path
  IN  IF Suffix(path) \notin {".csv", ".json"}
      THEN /\ result' = "ValueError: File must be either CSV or JSON format"
           /\ UNCHANGED <<headers, filename, file_type, fs>>
      ELSE /\ filename' = path
           /\ file_type' = Suffix(path)
           /\ fs' = create_file_if_not_exists(path, Suffix(path))
           /\ result' = "path set"
           /\ UNCHANGED headers

\* ------------------------------------------- validate_student_data

\* The characters of the strings the model compares or parses.
Chars(s) ==
  CASE s = "" -> <<>>
    [] s = "1" -> <<"1">>
    [] s = "2" -> <<"2">>
    [] s = "4" -> <<"4">>
    [] s = "5" -> <<"5">>
    [] s = "20" -> <<"2", "0">>
    [] s = " 20" -> <<" ", "2", "0">>
    [] s = "100" -> <<"1", "0", "0">>
    [] s = "101" -> <<"1", "0", "1">>
    [] s = "-5" -> <<"-", "5">>
    [] s = "abc" -> <<"a", "b", "c">>
    [] s = "Ann" -> <<"A", "n", "n">>
    [] s = "an" -> <<"a", "n">>
    [] s = "Bob" -> <<"B", "o", "b">>
    [] s = "A" -> <<"A">>
    [] s = "B" -> <<"B">>
    [] s = "C" -> <<"C">>
    [] s = "D" -> <<"D">>
    [] s = "E" -> <<"E">>
    [] s = "F" -> <<"F">>
    [] s = "v" -> <<"v">>
    [] s = NoneVal -> <<"N", "o", "n", "e">>   \* str(None)
    [] OTHER -> <<"?">>

Digits == <<"0", "1", "2", "3", "4", "5", "6", "7", "8", "9">>

DigitValue(c) == IndexOf(Digits, c) - 1

RECURSIVE StripLeft(_)
StripLeft(cs) == IF cs # <<>> /\ Head(cs) = " " THEN StripLeft(Tail(cs)) ELSE cs

RECURSIVE StripRight(_)
StripRight(cs) ==
  IF cs # <<>> /\ cs[Len(cs)] = " " THEN StripRight(SubSeq(cs, 1, Len(cs) - 1)) ELSE cs

RECURSIVE DecimalValue(_)
DecimalValue(ds) ==
  IF ds = <<>> THEN 0
  ELSE 10 * DecimalValue(SubSeq(ds, 1, Len(ds) - 1)) + DigitValue(ds[Len(ds)])

\* int(s) for a string: surrounding blanks stripped, an optional sign, then
\* decimal digits; anything else raises ValueError.
IntParse(s) ==
  LET body == StripRight(StripLeft(Chars(s)))
      signed == body # <<>> /\ Head(body) \in {"+", "-"}
      ds == IF signed THEN Tail(body) ELSE body
      ok == ds # <<>> /\ \A i \in DOMAIN ds : ds[i] \in Range(Digits)
  IN  [ok |-> ok,
       value |-> IF ~ok THEN 0
                 ELSE IF signed /\ Head(body) = "-" THEN 0 - DecimalValue(ds)
                 ELSE DecimalValue(ds)]

MinAge == 5
MaxAge == 100

Grades == {"A", "B", "C", "D", "F"}

\* all(key in student_data for key in self.headers)
AllFieldsPresent(student_data, hdrs) == \A i \in DOMAIN hdrs : hdrs[i] \in DOMAIN student_data

\* The range check with its lower end excluded (5 < age <= 100).
AgeInRange_Exclusive(age) == MinAge < age /\ age <= MaxAge

\* 5 <= age <= 100
AgeInRange(age) == MinAge <= age /\ age <= MaxAge

\* student_data['grade'] in ['A', 'B', 'C', 'D', 'F']
GradeAllowed(grade) == grade \in Grades

\* validate_student_data: "True", or the exception it raises. A ValueError for
\* an age out of range is raised inside the try block and replaced by the
\* handler's ValueError; a key the record lacks raises KeyError.
validate_student_data(student_data, hdrs) ==
  IF ~AllFieldsPresent(student_data, hdrs) THEN "ValueError: All fields are required"
  ELSE IF "id" \notin DOMAIN student_data THEN "KeyError"
  ELSE IF student_data["id"] = "" THEN "ValueError: ID must be a non-empty string"
  ELSE IF "name" \notin DOMAIN student_data THEN "KeyError"
  ELSE IF student_data["name"] = "" THEN "ValueError: Name must be a non-empty string"
  ELSE IF "age" \notin DOMAIN student_data THEN "KeyError"
  ELSE IF ~IntParse(student_data["age"]).ok THEN "ValueError: Age must be a valid number"
  ELSE IF ~AgeInRange(IntParse(student_data["age"]).value)
       THEN "ValueError: Age must be a valid number"
  ELSE IF "grade" \notin DOMAIN student_data THEN "KeyError"
  ELSE IF ~GradeAllowed(student_data["grade"]) THEN "ValueError: Grade must be one of: A, B, C, D, F"
  ELSE "True"

\* The records validate_student_data is called with: every combination of the
\* values below for the four built-in columns, with and without a value for the
\* added column x, and the same with one built-in column left out.
IdInputs == {"", "1"}
NameInputs == {"", "Ann"}
AgeInputs == {"", "4", "5", "100", "101", "abc", " 20", "-5"}
GradeInputs == {"", "A", "B", "C", "D", "E", "F"}

BuiltinRecords ==
  {[id |-> i, name |-> n, age |-> a, grade |-> g] :
     i \in IdInputs, n \in NameInputs, a \in AgeInputs, g \in GradeInputs}

Without(d, k) == [j \in DOMAIN d \ {k} |-> d[j]]

ValidateInputs ==
  BuiltinRecords
    \cup {r @@ ("x" :> "v") : r \in BuiltinRecords}
    \cup {Without([id |-> "1", name |-> "Ann", age |-> "20", grade |-> "A"], k) :
            k \in {"name", "age", "grade"}}

validate(student_data) ==
  /\ result' = validate_student_data(student_data, headers)
  /\ UNCHANGED <<headers, filename, file_type, fs>>

\* ------------------------------------------------------- add_student

BoundText == fs[filename]

\* The records a file holds: its CSV rows after the header, or its JSON objects.
RecordCount(text) == IF text.fmt = "csv" THEN Len(text.lines) - 1 ELSE Len(text.objs)

\* Room on disk for one more record (MaxRecords bounds the records of all files).
HasRoom == RecordCount(fs["students.csv"]) + RecordCount(fs["data.json"]) < MaxRecords

ColumnValue(k, id) ==
  CASE k = "id" -> id
    [] k = "name" -> "Ann"
    [] k = "age" -> "20"
    [] k = "grade" -> "A"
    [] k = "zzz" -> "v"
    [] OTHER -> ""

RecordOver(keys, id) == [k \in keys |-> ColumnValue(k, id)]

Ids == {"1", "2"}

\* The records add_student is called with: one value per Schema column (what the
\* menu collects), the same with an unknown key, with a bad grade, and with the
\* last Schema column missing.
StudentInputs ==
  {RecordOver(Range(headers), id) : id \in Ids}
    \cup {RecordOver(Range(headers) \cup {"zzz"}, "1")}
    \cup {[k \in Range(headers) |-> IF k = "grade" THEN "E" ELSE ColumnValue(k, "1")]}
    \cup {RecordOver(Range(headers) \ {headers[Len(headers)]}, "1")}

NotConfigured == "ValueError: File path not set. Call set_file_path() first"

add_student(student_data) ==
  IF filename = NoPath
  THEN result' = NotConfigured /\ UNCHANGED <<headers, filename, file_type, fs>>
  ELSE IF validate_student_data(student_data, headers) # "True"
  THEN /\ result' = validate_student_data(student_data, headers)
       /\ UNCHANGED <<headers, filename, file_type, fs>>
  ELSE IF file_type = ".csv"
  THEN IF HasExtraFields(student_data, headers)
       THEN /\ result' = "ValueError: dict contains fields not in fieldnames"
            /\ UNCHANGED <<headers, filename, file_type, fs>>
       ELSE /\ HasRoom
            /\ fs' = [fs EXCEPT ![filename] =
                        CsvText(Append(BoundText.lines, DictToList(student_data, headers)))]
            /\ result' = "Student added successfully!"
            /\ UNCHANGED <<headers, filename, file_type>>
  ELSE IF ~JsonLoads(BoundText)
  THEN result' = "JSONDecodeError" /\ UNCHANGED <<headers, filename, file_type, fs>>
  ELSE /\ HasRoom
       /\ fs' = [fs EXCEPT ![filename] =
                   JsonText(Append(read_json_file(BoundText), student_data))]
       /\ result' = "Student added successfully!"
       /\ UNCHANGED <<headers, filename, file_type>>

\* ------------------------------------------- views and search

\* [student[h] for h in headers] raises KeyError for a record lacking a column.
TableRaises(students, hdrs) ==
  \E i \in DOMAIN students : \E j \in DOMAIN hdrs : hdrs[j] \notin DOMAIN students[i]

view_all_students ==
  /\ result' =
       IF filename = NoPath THEN NotConfigured
       ELSE IF file_type # ".csv" /\ ~JsonLoads(BoundText) THEN "JSONDecodeError"
       ELSE LET students == IF file_type = ".csv" THEN DictReader(BoundText)
                            ELSE read_json_file(BoundText)
            IN  IF students = <<>> THEN "No students found!"
                ELSE IF TableRaises(students, headers) THEN "KeyError"
                ELSE "Student Records:"
  /\ UNCHANGED <<headers, filename, file_type, fs>>

ColumnInputs == {<<"id">>, <<"name", "zzz">>}

\* No check of self.filename: with no path set file_type is None, the JSON
\* branch runs and os.path.getsize(None) raises TypeError.
view_specific_columns(columns) ==
  /\ result' =
       IF filename = NoPath THEN "TypeError"
       ELSE IF file_type # ".csv" /\ ~JsonLoads(BoundText) THEN "JSONDecodeError"
       ELSE LET students == IF file_type = ".csv" THEN DictReader(BoundText)
                            ELSE read_json_file(BoundText)
            IN  IF students = <<>> THEN "No students found!"
                ELSE "Selected Student Records:"
  /\ UNCHANGED <<headers, filename, file_type, fs>>

LowerChar(c) ==
  CASE c = "A" -> "a"
    [] c = "B" -> "b"
    [] c = "N" -> "n"
    [] OTHER -> c

LowerChars(cs) == [i \in DOMAIN cs |-> LowerChar(cs[i])]

\* value.lower() in str(student[field]).lower()
ContainsIgnoreCase(value, field_value) ==
  LET v == LowerChars(Chars(value))
      f == LowerChars(Chars(field_value))
  IN  \E k \in 0..(Len(f) - Len(v)) : SubSeq(f, k + 1, k + Len(v)) = v

Matches(student, search_criteria) ==
  \A field \in DOMAIN search_criteria :
     /\ field \in DOMAIN student
     /\ ContainsIgnoreCase(search_criteria[field], student[field])

CriteriaInputs == {[name |-> "an"], [id |-> "2"], [zzz |-> "v"]}

search_students(search_criteria) ==
  /\ result' =
       IF filename = NoPath THEN NotConfigured
       ELSE IF file_type # ".csv" /\ ~JsonLoads(BoundText) THEN "JSONDecodeError"
       ELSE LET students == IF file_type = ".csv" THEN DictReader(BoundText)
                            ELSE read_json_file(BoundText)
                filtered_students == SelectSeq(students, LAMBDA st : Matches(st, search_criteria))
            IN  IF students = <<>> THEN "No students found!"
                ELSE IF filtered_students = <<>> THEN "No matching students found!"
                ELSE IF TableRaises(filtered_students, headers) THEN "KeyError"
                ELSE "Search Results:"
  /\ UNCHANGED <<headers, filename, file_type, fs>>

\* ---------------------------------------------------- update_student

\* student.update(updated_data)
DictUpdate(student, updated_data) ==
  [k \in DOMAIN student \cup DOMAIN updated_data |->
     IF k \in DOMAIN updated_data THEN updated_data[k] ELSE student[k]]

PatchInputs == {[name |-> "Bob"], [zzz |-> "v"]}

\* No check of self.filename (TypeError from os.path.getsize(None)).
update_student(student_id, updated_data) ==
  IF filename = NoPath
  THEN result' = "TypeError" /\ UNCHANGED <<headers, filename, file_type, fs>>
  ELSE IF file_type # ".csv" /\ ~JsonLoads(BoundText)
  THEN result' = "JSONDecodeError" /\ UNCHANGED <<headers, filename, file_type, fs>>
  ELSE
    LET loaded == IF file_type = ".csv" THEN DictReader(BoundText)
                  ELSE read_json_file(BoundText)
        updated == \E i \in DOMAIN loaded : loaded[i]["id"] = student_id
        students == [i \in DOMAIN loaded |->
                       IF loaded[i]["id"] = student_id
                       THEN DictUpdate(loaded[i], updated_data) ELSE loaded[i]]
        written == DictWriterRewrite(headers, students)
    IN  IF \E i \in DOMAIN loaded : "id" \notin DOMAIN loaded[i]
        THEN result' = "KeyError" /\ UNCHANGED <<headers, filename, file_type, fs>>
        ELSE IF ~updated
        THEN result' = "Student not found!" /\ UNCHANGED <<headers, filename, file_type, fs>>
        ELSE IF file_type = ".csv"
        THEN /\ fs' = [fs EXCEPT ![filename] = written.text]
             /\ result' = IF written.raised
                          THEN "ValueError: dict contains fields not in fieldnames"
                          ELSE "Student updated successfully!"
             /\ UNCHANGED <<headers, filename, file_type>>
        ELSE /\ fs' = [fs EXCEPT ![filename] = JsonText(students)]
             /\ result' = "Student updated successfully!"
             /\ UNCHANGED <<headers, filename, file_type>>

\* ---------------------------------------------------- delete_student

\* No check of self.filename (TypeError from open(None)) and none of
\* self.file_type: the bound file is read and rewritten as CSV whatever it is.
delete_student(student_id) ==
  IF filename = NoPath
  THEN result' = "TypeError" /\ UNCHANGED <<headers, filename, file_type, fs>>
  ELSE
    LET loaded == DictReader(BoundText)
        students == SelectSeq(loaded, LAMBDA st : st["id"] # student_id)
        deleted == \E i \in DOMAIN loaded : loaded[i]["id"] = student_id
        written == DictWriterRewrite(headers, students)
    IN  IF \E i \in DOMAIN loaded : "id" \notin DOMAIN loaded[i]
        THEN result' = "KeyError" /\ UNCHANGED <<headers, filename, file_type, fs>>
        ELSE IF ~deleted
        THEN result' = "Student not found!" /\ UNCHANGED <<headers, filename, file_type, fs>>
        ELSE /\ fs' = [fs EXCEPT ![filename] = written.text]
             /\ result' = IF written.raised
                          THEN "ValueError: dict contains fields not in fieldnames"
                          ELSE "Student deleted successfully!"
             /\ UNCHANGED <<headers, filename, file_type>>

\* -------------------------------------------------------- add_column

\* The names add_column and remove_column are called with.
AddColumnInputs == {"ID", "Grade", "x", "X"}
RemoveColumnInputs == {"id", "ID", "x", "zzz"}

\* The membership test without column_name.lower(): the name as given is looked
\* up among the lowered Schema names.
ColumnExists_NameNotLowered(column_name, hdrs) ==
  \E i \in DOMAIN hdrs : Lower(hdrs[i]) = column_name

\* column_name in [h.lower() for h in self.headers], column_name lowered
ColumnExists(column_name, hdrs) ==
  \E i \in DOMAIN hdrs : Lower(hdrs[i]) = Lower(column_name)

\* student[column_name] = ""
DictSet(student, k, v) == [j \in DOMAIN student \cup {k} |-> IF j = k THEN v ELSE student[j]]

\* With no path set file_type is None: the JSON branch runs and
\* os.path.getsize(None) raises TypeError. self.headers is appended to before
\* the file is rewritten, so a rewrite that raises leaves the column added.
add_column(name) ==
  LET column_name == Lower(name)
  IN  IF ColumnExists(name, headers)
      THEN result' = "Column already exists!" /\ UNCHANGED <<headers, filename, file_type, fs>>
      ELSE IF filename = NoPath
      THEN result' = "TypeError" /\ UNCHANGED <<headers, filename, file_type, fs>>
      ELSE IF file_type = ".csv"
      THEN LET students == [i \in DOMAIN DictReader(BoundText) |->
                              DictSet(DictReader(BoundText)[i], column_name, "")]
               written == DictWriterRewrite(Append(headers, column_name), students)
           IN  /\ headers' = Append(headers, column_name)
               /\ fs' = [fs EXCEPT ![filename] = written.text]
               /\ result' = IF written.raised
                            THEN "ValueError: dict contains fields not in fieldnames"
                            ELSE "Column added successfully!"
               /\ UNCHANGED <<filename, file_type>>
      ELSE IF ~JsonLoads(BoundText)
      THEN result' = "JSONDecodeError" /\ UNCHANGED <<headers, filename, file_type, fs>>
      ELSE /\ headers' = Append(headers, column_name)
           /\ fs' = [fs EXCEPT ![filename] =
                       JsonText([i \in DOMAIN read_json_file(BoundText) |->
                                   DictSet(read_json_file(BoundText)[i], column_name, "")])]
           /\ result' = "Column added successfully!"
           /\ UNCHANGED <<filename, file_type>>

\* ----------------------------------------------------- remove_column

\* self.headers.remove(column_name): the first occurrence.
ListRemove(hdrs, column_name) == RemoveAt(hdrs, IndexOf(hdrs, column_name))

\* remove_column without its refusal to remove id.
IsProtected_Never(column_name) == FALSE

\* if column_name == 'id': the column remove_column refuses to remove.
IsProtected(column_name) == column_name = "id"

\* No check of self.file_type: the bound file is read and rewritten as CSV.
\* del student[column_name] raises KeyError, before anything is written, for a
\* row that lacks the column.
remove_column(column_name) ==
  IF column_name \notin Range(headers)
  THEN result' = "Column does not exist!" /\ UNCHANGED <<headers, filename, file_type, fs>>
  ELSE IF IsProtected(column_name)
  THEN result' = "Cannot remove ID column!" /\ UNCHANGED <<headers, filename, file_type, fs>>
  ELSE IF filename = NoPath
  THEN result' = "TypeError" /\ UNCHANGED <<headers, filename, file_type, fs>>
  ELSE
    LET loaded == DictReader(BoundText)
        students == [i \in DOMAIN loaded |-> Without(loaded[i], column_name)]
        written == DictWriterRewrite(ListRemove(headers, column_name), students)
    IN  IF \E i \in DOMAIN loaded : column_name \notin DOMAIN loaded[i]
        THEN result' = "KeyError" /\ UNCHANGED <<headers, filename, file_type, fs>>
        ELSE /\ headers' = ListRemove(headers, column_name)
             /\ fs' = [fs EXCEPT ![filename] = written.text]
             /\ result' = IF written.raised
                          THEN "ValueError: dict contains fields not in fieldnames"
                          ELSE "Column removed successfully!"
             /\ UNCHANGED <<filename, file_type>>

\* ------------------------------------------------------------- Init

Init ==
  /\ headers = DefaultHeaders
  /\ filename = NoPath
  /\ file_type = NoPath
  /\ fs = [p \in Paths |-> NoFile]
  /\ result = "start"

\* The names the schema-only specification adds and removes.
SchemaNameInputs == {"id", "ID", "grade", "Grade", "x", "X"}

\* Every public method, from any state.
Next ==
  \/ \E p \in PathInputs : set_file_path(p)
  \/ \E r \in StudentInputs : add_student(r)
  \/ view_all_students
  \/ \E c \in ColumnInputs : view_specific_columns(c)
  \/ \E id \in Ids : \E u \in PatchInputs : update_student(id, u)
  \/ \E id \in Ids : delete_student(id)
  \/ \E n \in AddColumnInputs : add_column(n)
  \/ \E n \in RemoveColumnInputs : remove_column(n)
  \/ \E c \in CriteriaInputs : search_students(c)

Spec == Init /\ [][Next]_vars

\* The methods that add and remove records and columns, without update_student.
NextSchema ==
  \/ \E p \in PathInputs : set_file_path(p)
  \/ \E r \in StudentInputs : add_student(r)
  \/ \E id \in Ids : delete_student(id)
  \/ \E n \in AddColumnInputs : add_column(n)
  \/ \E n \in RemoveColumnInputs : remove_column(n)

SpecSchema == Init /\ [][NextSchema]_vars

\* validate_student_data applied to ValidateInputs under every Schema the column
\* methods reach.
NextValidate ==
  \/ \E p \in PathInputs : set_file_path(p)
  \/ \E n \in SchemaNameInputs : add_column(n)
  \/ \E n \in SchemaNameInputs : remove_column(n)
  \/ \E r \in ValidateInputs : validate(r)

SpecValidate == Init /\ [][NextValidate]_vars

\* ------------------------------------------------------------ claims

\* The bound file loads in the bound format.
Loadable == filename # NoPath /\ (file_type = ".csv" \/ JsonLoads(BoundText))

\* The records the store loads from the bound file (as view_all_students does).
StoredRecords ==
  IF file_type = ".csv" THEN DictReader(BoundText) ELSE read_json_file(BoundText)

ErrorResults ==
  {NotConfigured, "TypeError", "KeyError", "JSONDecodeError",
   "ValueError: File must be either CSV or JSON format",
   "ValueError: dict contains fields not in fieldnames",
   "ValueError: All fields are required",
   "ValueError: ID must be a non-empty string",
   "ValueError: Name must be a non-empty string",
   "ValueError: Age must be a valid number",
   "ValueError: Grade must be one of: A, B, C, D, F"}

\* C1: after any store operation that completed, every record of the bound
\* store has exactly the Schema's columns as its keys.
C1_KeysEqualSchema ==
  (Loadable /\ result \notin ErrorResults) =>
    \A i \in DOMAIN StoredRecords : DOMAIN StoredRecords[i] = Range(headers)

\* C2: no two records of the bound store have the same id (Add refuses a
\* duplicate id), checked without update_student.
C2_UniqueIds ==
  Loadable =>
    \A i, j \in DOMAIN StoredRecords :
       (i # j /\ "id" \in DOMAIN StoredRecords[i] /\ "id" \in DOMAIN StoredRecords[j])
         => StoredRecords[i]["id"] # StoredRecords[j]["id"]

\* C3: on a bound store of either format, Delete(id) removes every record with
\* that id, keeps the others in order and reports deleted; with no such record
\* it reports not-found and leaves the file as it was.
C3_DeleteContract ==
  [][\A id \in Ids :
       (Loadable /\ delete_student(id)) =>
         IF \E i \in DOMAIN StoredRecords : StoredRecords[i]["id"] = id
         THEN /\ result' = "Student deleted successfully!"
              /\ Loadable'
              /\ StoredRecords' = SelectSeq(StoredRecords, LAMBDA st : st["id"] # id)
         ELSE /\ result' = "Student not found!"
              /\ fs' = fs]_vars

\* C4: on a bound store of either format, RemoveColumn(name) for a Schema column
\* other than id removes it from the Schema and from every record, keeps the
\* rest, and leaves a file that still loads in the bound format.
C4_RemoveColumnContract ==
  [][\A n \in RemoveColumnInputs :
       (Loadable /\ n \in Range(headers) /\ n # "id" /\ remove_column(n)) =>
         /\ headers' = SelectSeq(headers, LAMBDA h : h # n)
         /\ Loadable'
         /\ StoredRecords' = [i \in DOMAIN StoredRecords |-> Without(StoredRecords[i], n)]]_vars

NoDuplicates(s) == \A i, j \in DOMAIN s : i # j => s[i] # s[j]

\* C5: the Schema never holds a column twice and id stays its first element,
\* and RemoveColumn("id") reports cannot-remove and changes nothing.
C5_SchemaUniqueIdFirst ==
  /\ [](Len(headers) >= 1 /\ headers[1] = "id" /\ NoDuplicates(headers))
  /\ [][remove_column("id") =>
          /\ result' = "Cannot remove ID column!"
          /\ UNCHANGED <<headers, filename, file_type, fs>>]_vars

\* The added column x is in the Schema of a bound store, and a removal of id was
\* refused.
C5_Witness ==
  /\ result = "Cannot remove ID column!"
  /\ Len(headers) = 5
  /\ headers[5] = "x"
  /\ filename # NoPath

\* A store operation other than SetPath.
StoreOperation ==
  \/ \E r \in StudentInputs : add_student(r)
  \/ view_all_students
  \/ \E c \in ColumnInputs : view_specific_columns(c)
  \/ \E id \in Ids : \E u \in PatchInputs : update_student(id, u)
  \/ \E id \in Ids : delete_student(id)
  \/ \E n \in AddColumnInputs : add_column(n)
  \/ \E n \in RemoveColumnInputs : remove_column(n)
  \/ \E c \in CriteriaInputs : search_students(c)

\* C6: before any successful SetPath every store operation fails with
\* NotConfigured and leaves the Schema unchanged and the store unbound.
C6_NotConfigured ==
  [][(filename = NoPath /\ StoreOperation) =>
       /\ result' = NotConfigured
       /\ headers' = headers
       /\ filename' = NoPath]_vars

\* The integer an age string denotes, for the ages of ValidateInputs.
AgeDenoted(s) ==
  CASE s = "4" -> 4
    [] s = "5" -> 5
    [] s = " 20" -> 20
    [] s = "100" -> 100
    [] s = "101" -> 101
    [] s = "-5" -> 0 - 5
    [] OTHER -> 0 - 1000

\* id and name non-empty, age an integer in [5,100], grade one of A, B, C, D, F.
ValidFields(r) ==
  /\ r["id"] # ""
  /\ r["name"] # ""
  /\ AgeDenoted(r["age"]) \in 5..100
  /\ r["grade"] \in {"A", "B", "C", "D", "F"}

HasBuiltinColumns(r) == {"id", "name", "age", "grade"} \subseteq DOMAIN r

\* C7 as stated: for every record with a value for each built-in column,
\* Validate succeeds iff its four fields are valid.
C7_ValidateOriginal ==
  \A r \in ValidateInputs :
     HasBuiltinColumns(r) =>
       (validate_student_data(r, headers) = "True" <=> ValidFields(r))

\* C7 amended: for every record with a value for each built-in column and for
\* each column of the current Schema, Validate succeeds iff its four fields
\* are valid.
C7_ValidateAmended ==
  \A r \in ValidateInputs :
     (HasBuiltinColumns(r) /\ Range(headers) \subseteq DOMAIN r) =>
       (validate_student_data(r, headers) = "True" <=> ValidFields(r))

\* A validation succeeded under a Schema that is not the default one.
C7_Witness == result = "True" /\ headers # DefaultHeaders

\* C8: AddColumn of a name the Schema already holds, ignoring case, reports
\* already-exists and changes neither the Schema nor the files.
C8_AddColumnIdempotent ==
  [][\A n \in AddColumnInputs :
       ((\E i \in DOMAIN headers : Lower(headers[i]) = Lower(n)) /\ add_column(n)) =>
         /\ result' = "Column already exists!"
         /\ headers' = headers
         /\ fs' = fs]_vars

\* An added column x is in the Schema of a bound store holding a record, and a
\* further AddColumn was answered with already-exists.
C8_Witness ==
  /\ result = "Column already exists!"
  /\ "x" \in Range(headers)
  /\ Loadable
  /\ StoredRecords # <<>>

\* C9: while the store is bound to a CSV file, the file's header row is the
\* Schema, in order, and every data row has one value per Schema column.
C9_HeaderRowIsSchema ==
  (filename # NoPath /\ file_type = ".csv") =>
    /\ BoundText.lines[1] = headers
    /\ \A i \in 2..Len(BoundText.lines) : Len(BoundText.lines[i]) = Len(headers)

\* C10: an operation that ends in an error leaves the Schema and the files as
\* they were.
C10_ErrorLeavesStore ==
  [][(Next /\ result' \in ErrorResults) => (headers' = headers /\ fs' = fs)]_vars
====
